---- MODULE Spec2Model ----
(***************************************************************************)
(* Animal-rescue backend: users, NGO profiles and rescue cases kept in a   *)
(* document store and changed by HTTP request handlers.                    *)
(*                                                                         *)
(* The store is modelled as the documents the handlers read and write:     *)
(* every field holds exactly the value the handler assigns, spelled as the *)
(* handler spells it ('ASSIGNED' is not 'assigned', `reporter` is not      *)
(* `reportedBy`).  A handler is one atomic action, except the two          *)
(* assignment handlers (NGO accept, admin assign), which are split at      *)
(* their awaits on the store so that two requests can interleave.          *)
(* Saving through a document (`doc.save()`) runs the schema's validators   *)
(* and then its pre('save') hook for the NGO schema; the two Rescue        *)
(* schemas of the repository disagree with each other and with the route   *)
(* handlers on the spelling of status values, so Rescue documents are      *)
(* stored as written.                                                      *)
(***************************************************************************)
EXTENDS Integers, Sequences, FiniteSets, TLC

\* ---------------------------------------------------------------- bounds
MaxReporters == 1
MaxNgoUsers == 2
MaxCases == 2
MaxCap == 2
MaxSlots == 2

\* ------------------------------------------------------------ identities
None == "none"

AdminId == "admin"
ReporterIds == {"u" \o ToString(i) : i \in 1..MaxReporters}
NgoUserIds == {"g" \o ToString(i) : i \in 1..MaxNgoUsers}
UserIds == {AdminId} \cup ReporterIds \cup NgoUserIds

\* an NGO user can create a profile again after its profile was deleted
NgoIndex == 1..(MaxNgoUsers + 1)
NgoId(i) == "n" \o ToString(i)
NgoIds == {NgoId(i) : i \in NgoIndex}

CaseIndex == 1..MaxCases
CaseId(i) == "c" \o ToString(i)
CaseIds == {CaseId(i) : i \in CaseIndex}

Slots == 1..MaxSlots

\* ------------------------------------------------------------- documents
VARIABLES users, ngos, rescues, tokens, req, resp, mailer

vars == <<users, ngos, rescues, tokens, req, resp, mailer>>

\* a document that was never created (st = "none") or was removed
\* (st = "deleted"); ids are never reused
NoUser(st) ==
  [st |-> st, role |-> None, isActive |-> FALSE, ngoApprovalStatus |-> None,
   isApproved |-> FALSE, isNewRegistration |-> FALSE]

NoCapacity == [total |-> 0, current |-> 0, available |-> 0]

NoStatistics == [totalRescues |-> 0, successfulRescues |-> 0]

NoNgo(st) ==
  [st |-> st, user |-> None, specialties |-> {}, capacity |-> NoCapacity,
   verification |-> None, isActive |-> FALSE, statistics |-> NoStatistics]

NoRescue(st) ==
  [st |-> st, reporter |-> None, reportedBy |-> None, reporterName |-> None,
   animalType |-> None, urgency |-> None, priority |-> 0, isPublic |-> FALSE,
   status |-> None, assignedNGO |-> None, timeline |-> <<>>]

IdleReq ==
  [kind |-> "idle", pc |-> "idle", caller |-> None, rescue |-> None,
   ngo |-> None, sawOpen |-> FALSE, overlap |-> FALSE, result |-> None]

\* what a handler answers: the route, the HTTP status, the message (by a short
\* name) and, for the status and cancel routes, previousStatus (logged) and
\* the status of the rescue in the answer; mail is what the handler logged
\* about its notification ("none" when it attempted none); list is the set of
\* rescues in the body of the answer of the two read routes
StatusResponse(op, code, msg, prev, status) ==
  [op |-> op, code |-> code, msg |-> msg, prev |-> prev, status |-> status,
   mail |-> "none", list |-> {}]

Response(op, code, msg) == StatusResponse(op, code, msg, None, None)

\* res.json({ success: true, rescues: populatedRescues, ... })
ListResponse(op, list) == [Response(op, 200, "ok") EXCEPT !.list = list]

\* sendEmail({...}): it returns once a try succeeds and throws when its three
\* tries are used up; a handler whose guard fails (~attempted) does not call it
SendEmail(attempted) == IF attempted THEN {"sent", "failed"} ELSE {"none"}

\* a notification whose exception reaches the handler's outer catch
NotifiedUncaught(r, outcome) ==
  IF outcome = "failed"
  THEN [r EXCEPT !.code = 500, !.msg = "server_error", !.mail = outcome]
  ELSE [r EXCEPT !.mail = outcome]

\* try { await sendEmail({...}) } catch (emailError) { console.error(...) }
\* around the answer r the handler goes on to give: the outcome is logged
Notified(r, outcome) == [r EXCEPT !.mail = outcome]

\* ------------------------------------------------------------ email service
\* the keys of the templates object a handler can name, and a name it lacks
Templates == {"ngoApproved", "statusUpdate"}

TemplateInputs == Templates \cup {"accountDeleted"}

\* what one try of sendEmail can throw: createTransporter, transporter.verify
\* and transporter.sendMail reject, and the template lookup throws
TransportErrors == {"connect", "verify", "send"}

\* how one try of sendEmail can end for a template
TryOutcomes(template) ==
  IF template \in Templates
  THEN {"ok"} \cup TransportErrors
  ELSE {"connect", "verify", "template"}

\* no call of sendEmail in progress
IdleMailer ==
  [pc |-> "idle", template |-> None, retries |-> 0, attempts |-> 0,
   errors |-> <<>>, result |-> None]

\* sendEmail({ to, subject, template, data }): let retries = 3
SendEmailCall(template) ==
  /\ mailer.pc = "idle"
  /\ template \in TemplateInputs
  /\ mailer' = [IdleMailer EXCEPT !.pc = "trying", !.template = template,
                                  !.retries = 3]
  /\ UNCHANGED <<users, ngos, rescues, tokens, req, resp>>

\* a catch block that tests retries < 0 and so never rethrows
MailFailedNeverThrown(m, error) ==
  [m EXCEPT !.retries = @ - 1, !.errors = Append(@, error), !.pc = "waiting"]

\* catch (error) { retries--; if (retries === 0) throw error; await wait }
MailFailed(m, error) ==
  [m EXCEPT !.retries = @ - 1,
            !.errors = Append(@, error),
            !.pc = IF m.retries - 1 = 0 THEN "thrown" ELSE "waiting",
            !.result = IF m.retries - 1 = 0 THEN error ELSE None]

\* the body of the try block, once: it returns { success: true, ... } or
\* throws into the catch block
MailAttempt(outcome) ==
  /\ mailer.pc = "trying"
  /\ outcome \in TryOutcomes(mailer.template)
  /\ LET tried == [mailer EXCEPT !.attempts = @ + 1]
     IN  mailer' = IF outcome = "ok"
                   THEN [tried EXCEPT !.pc = "returned", !.result = "success"]
                   ELSE MailFailed(tried, outcome)
  /\ UNCHANGED <<users, ngos, rescues, tokens, req, resp>>

\* the wait of one second is over: while (retries > 0) is tested again, and
\* a loop that ends there makes the function return undefined
MailRetry ==
  /\ mailer.pc = "waiting"
  /\ mailer' = IF mailer.retries > 0
                THEN [mailer EXCEPT !.pc = "trying"]
                ELSE [mailer EXCEPT !.pc = "returned", !.result = "undefined"]
  /\ UNCHANGED <<users, ngos, rescues, tokens, req, resp>>

Live(d) == d.st = "live"

\* the admin account is created by the seeding script before the server runs
AdminUser ==
  [st |-> "live", role |-> "admin", isActive |-> TRUE,
   ngoApprovalStatus |-> "not_applicable", isApproved |-> TRUE,
   isNewRegistration |-> FALSE]

Init ==
  /\ users = [u \in UserIds |-> IF u = AdminId THEN AdminUser ELSE NoUser("none")]
  /\ ngos = [n \in NgoIds |-> NoNgo("none")]
  /\ rescues = [c \in CaseIds |-> NoRescue("none")]
  /\ tokens = {AdminId}
  /\ req = [s \in Slots |-> IdleReq]
  /\ resp = Response("init", 0, None)
  /\ mailer = IdleMailer

\* ----------------------------------------------------------- middleware
\* auth middleware: the bearer token verifies, the user exists and is active
Authenticated(u) ==
  /\ u \in tokens
  /\ Live(users[u])
  /\ users[u].isActive

\* NGO.findOne({ user: u })
ProfileOf(u) ==
  IF \E n \in NgoIds : Live(ngos[n]) /\ ngos[n].user = u
  THEN CHOOSE n \in NgoIds : Live(ngos[n]) /\ ngos[n].user = u
  ELSE None

\* the _id a newly created NGO document gets
FreshNgo ==
  IF \E i \in NgoIndex : ngos[NgoId(i)].st = "none"
  THEN NgoId(CHOOSE i \in NgoIndex :
         /\ ngos[NgoId(i)].st = "none"
         /\ \A j \in NgoIndex : ngos[NgoId(j)].st = "none" => i <= j)
  ELSE None

FreshCase ==
  IF \E i \in CaseIndex : rescues[CaseId(i)].st = "none"
  THEN CaseId(CHOOSE i \in CaseIndex :
         /\ rescues[CaseId(i)].st = "none"
         /\ \A j \in CaseIndex : rescues[CaseId(j)].st = "none" => i <= j)
  ELSE None

\* ngoSchema.pre('save'): available is recomputed from total and current
PreSaveNgo(cap) ==
  [cap EXCEPT !.available = cap.total - cap.current]

\* ngoSchema.capacity validators: total >= 1, current >= 0, available >= 0;
\* document validation runs before the pre('save') hook
ValidCapacity(cap) ==
  /\ cap.total >= 1
  /\ cap.current >= 0
  /\ cap.available >= 0

\* ---------------------------------------------------------- registration
\* POST /api/auth/register (with NGO profile creation); an NGO registers
\* with a capacity and a non-empty list of specialties
\* specialties an NGO can register with: one animal type, or the wildcard
SpecialtySets == {{"cat"}, {"all"}}

Register(u, role, capacity, specialties) ==
  /\ users[u].st = "none"
  /\ \/ role = "user" /\ u \in ReporterIds
     \/ role = "ngo" /\ u \in NgoUserIds
  /\ LET userData ==
           [st |-> "live", role |-> role, isActive |-> TRUE,
            ngoApprovalStatus |-> IF role = "ngo" THEN "pending" ELSE "not_applicable",
            isApproved |-> (role # "ngo"),
            isNewRegistration |-> (role = "ngo")]
         n == FreshNgo
         ngoData ==
           [st |-> "live", user |-> u, specialties |-> specialties,
            capacity |-> PreSaveNgo([total |-> capacity, current |-> 0,
                                     available |-> capacity]),
            verification |-> "pending", isActive |-> FALSE,
            statistics |-> NoStatistics]
     IN  IF role = "ngo" /\ specialties = {}
         THEN /\ resp' = Response("register", 400, "validation")
              /\ UNCHANGED <<users, ngos, tokens>>
         ELSE IF role = "ngo"
         THEN /\ n # None
              /\ users' = [users EXCEPT ![u] = userData]
              /\ ngos' = [ngos EXCEPT ![n] = ngoData]
              /\ tokens' = tokens
              /\ resp' = Response("register", 201, "pending_approval")
         ELSE /\ users' = [users EXCEPT ![u] = userData]
              /\ ngos' = ngos
              /\ tokens' = tokens \cup {u}
              /\ resp' = Response("register", 201, "ok")
  /\ UNCHANGED <<rescues, req, mailer>>

\* POST /api/auth/login
Login(u) ==
  /\ u \in UserIds
  /\ Live(users[u])
  /\ LET user == users[u]
         blocked ==
           /\ user.role = "ngo"
           /\ user.isNewRegistration
           /\ (user.ngoApprovalStatus # "approved" \/ ~user.isApproved)
         repair ==
           /\ user.role = "ngo"
           /\ ~user.isNewRegistration
           /\ user.ngoApprovalStatus # "approved"
     IN  IF ~user.isActive
         THEN /\ resp' = Response("login", 400, "deactivated")
              /\ UNCHANGED <<users, tokens>>
         ELSE IF blocked
         THEN /\ resp' = Response("login", 403, user.ngoApprovalStatus)
              /\ UNCHANGED <<users, tokens>>
         ELSE /\ users' = IF repair
                          THEN [users EXCEPT ![u].ngoApprovalStatus = "approved",
                                             ![u].isApproved = TRUE]
                          ELSE users
              /\ tokens' = tokens \cup {u}
              /\ resp' = Response("login", 200, "ok")
  /\ UNCHANGED <<ngos, rescues, req, mailer>>

\* POST /login of the second auth router (kept in routes/rescues.js): an NGO
\* user gets a token only while isApproved and ngoApprovalStatus 'approved'
LoginStrict(u) ==
  /\ u \in UserIds
  /\ Live(users[u])
  /\ LET user == users[u]
     IN  IF ~user.isActive
         THEN /\ resp' = Response("login", 403, "deactivated")
              /\ tokens' = tokens
         ELSE IF user.role = "ngo"
                 /\ (~user.isApproved \/ user.ngoApprovalStatus # "approved")
         THEN /\ resp' = Response("login", 403, "pending")
              /\ tokens' = tokens
         ELSE /\ tokens' = tokens \cup {u}
              /\ resp' = Response("login", 200, "ok")
  /\ UNCHANGED <<users, ngos, rescues, req, mailer>>

\* PUT /api/admin/ngos/:id/approve
ApproveNgo(a, n) ==
  /\ Authenticated(a) /\ users[a].role = "admin"
  /\ n \in NgoIds
  /\ IF ~Live(ngos[n])
     THEN /\ resp' = Response("approve", 404, "ngo_not_found")
          /\ UNCHANGED <<users, ngos>>
     ELSE LET u == ngos[n].user
          IN  /\ ngos' = [ngos EXCEPT
                    ![n].verification = "verified",
                    ![n].isActive = TRUE,
                    ![n].capacity = PreSaveNgo(ngos[n].capacity)]
              /\ IF u \in UserIds /\ Live(users[u])
                 THEN /\ users' = [users EXCEPT
                            ![u].ngoApprovalStatus = "approved",
                            ![u].isApproved = TRUE,
                            ![u].isNewRegistration = FALSE]
                      /\ \E outcome \in SendEmail(TRUE) :
                           resp' = Notified(Response("approve", 200, "ok"),
                                            outcome)
                 ELSE /\ users' = users
                      /\ resp' = Response("approve", 500, "server_error")
  /\ UNCHANGED <<rescues, tokens, req, mailer>>

\* PUT /api/admin/ngos/:id/reject
RejectNgo(a, n) ==
  /\ Authenticated(a) /\ users[a].role = "admin"
  /\ n \in NgoIds
  /\ IF ~Live(ngos[n])
     THEN /\ resp' = Response("reject", 404, "ngo_not_found")
          /\ UNCHANGED <<users, ngos>>
     ELSE LET u == ngos[n].user
          IN  /\ ngos' = [ngos EXCEPT
                    ![n].verification = "rejected",
                    ![n].isActive = FALSE,
                    ![n].capacity = PreSaveNgo(ngos[n].capacity)]
              /\ IF u \in UserIds /\ Live(users[u])
                 THEN /\ users' = [users EXCEPT
                            ![u].ngoApprovalStatus = "rejected",
                            ![u].isApproved = FALSE]
                      /\ \E outcome \in SendEmail(TRUE) :
                           resp' = Notified(Response("reject", 200, "ok"),
                                            outcome)
                 ELSE /\ users' = users
                      /\ resp' = Response("reject", 500, "server_error")
  /\ UNCHANGED <<rescues, tokens, req, mailer>>

\* PUT /api/ngos/:id/verify (ngos router): NGO.findByIdAndUpdate sets
\* verification.status and nothing else, with no validators and no hook
VerifyNgo(a, n) ==
  /\ Authenticated(a) /\ users[a].role = "admin"
  /\ n \in NgoIds
  /\ IF ~Live(ngos[n])
     THEN /\ resp' = Response("verify", 404, "ngo_not_found")
          /\ ngos' = ngos
     ELSE /\ ngos' = [ngos EXCEPT ![n].verification = "verified"]
          /\ resp' = Response("verify", 200, "ok")
  /\ UNCHANGED <<users, rescues, tokens, req, mailer>>

\* PUT /api/admin/ngos/:id/verify (admin router): the NGO is verified and
\* activated and saved; the user document is not read
VerifyNgoAdmin(a, n) ==
  /\ Authenticated(a) /\ users[a].role = "admin"
  /\ n \in NgoIds
  /\ IF ~Live(ngos[n])
     THEN /\ resp' = Response("verify", 404, "ngo_not_found")
          /\ ngos' = ngos
     ELSE /\ ngos' = [ngos EXCEPT
                ![n].verification = "verified",
                ![n].isActive = TRUE,
                ![n].capacity = PreSaveNgo(ngos[n].capacity)]
          /\ resp' = Response("verify", 200, "ok")
  /\ UNCHANGED <<users, rescues, tokens, req, mailer>>

\* PUT /api/admin/users/:id/activate and /deactivate: user.isActive is set
\* and the user saved
SetUserActive(a, u, active) ==
  /\ Authenticated(a) /\ users[a].role = "admin"
  /\ u \in UserIds /\ active \in BOOLEAN
  /\ IF ~Live(users[u])
     THEN /\ resp' = Response("set_active", 404, "user_not_found")
          /\ users' = users
     ELSE /\ users' = [users EXCEPT ![u].isActive = active]
          /\ resp' = Response("set_active", 200, "ok")
  /\ UNCHANGED <<ngos, rescues, tokens, req, mailer>>

\* ------------------------------------------------------------ NGO profile
\* request bodies carrying a capacity object, as a client can send them
CapacityBodies ==
  [total : 1..MaxCap, current : 0..MaxCap, available : 0..MaxCap]

\* POST /api/ngos/my-profile
CreateMyProfile(u, body) ==
  /\ Authenticated(u)
  /\ body \in CapacityBodies
  /\ IF users[u].role # "ngo"
     THEN /\ resp' = Response("create_profile", 403, "ngo_required")
          /\ ngos' = ngos
     ELSE IF ProfileOf(u) # None
     THEN /\ resp' = Response("create_profile", 400, "profile_exists")
          /\ ngos' = ngos
     ELSE IF ~ValidCapacity(body)
     THEN /\ resp' = Response("create_profile", 500, "validation")
          /\ ngos' = ngos
     ELSE LET n == FreshNgo
          IN  /\ n # None
              /\ ngos' = [ngos EXCEPT ![n] =
                    [st |-> "live", user |-> u,
                     specialties |-> {"all"}, \* a body that passes validation
                     capacity |-> PreSaveNgo(body),
                     verification |-> "pending", isActive |-> FALSE,
                     statistics |-> NoStatistics]]
              /\ resp' = Response("create_profile", 201, "ok")
  /\ UNCHANGED <<users, rescues, tokens, req, mailer>>

\* PUT /api/ngos/my-profile (the handler the router reaches first):
\* findOneAndUpdate({ user }, { $set: req.body }, { new, upsert }) writes the
\* body's capacity object as it is; no validators and no save hook run
UpdateMyProfile(u, body) ==
  /\ Authenticated(u)
  /\ body \in CapacityBodies
  /\ IF users[u].role # "ngo"
     THEN /\ resp' = Response("update_profile", 403, "ngo_required")
          /\ ngos' = ngos
     ELSE LET p == ProfileOf(u)
              n == IF p # None THEN p ELSE FreshNgo
          IN  /\ n # None
              /\ ngos' = IF p # None
                         THEN [ngos EXCEPT ![n].capacity = body]
                         ELSE [ngos EXCEPT ![n] =
                                 [st |-> "live", user |-> u,
                                  specialties |-> {}, capacity |-> body,
                                  verification |-> "pending", isActive |-> FALSE,
                                  statistics |-> NoStatistics]]
              /\ resp' = Response("update_profile", 200, "ok")
  /\ UNCHANGED <<users, rescues, tokens, req, mailer>>

Max(a, b) == IF a >= b THEN a ELSE b

\* PUT /api/user/ngo-profile: capacity.total from the body, current kept,
\* available = max(0, total - current); then save()
UpdateNgoProfile(u, total) ==
  /\ Authenticated(u)
  /\ total \in 1..MaxCap
  /\ IF users[u].role # "ngo"
     THEN /\ resp' = Response("update_ngo_profile", 403, "ngo_required")
          /\ ngos' = ngos
     ELSE IF ProfileOf(u) = None
     THEN /\ resp' = Response("update_ngo_profile", 404, "profile_not_found")
          /\ ngos' = ngos
     ELSE LET n == ProfileOf(u)
              currentAnimals == ngos[n].capacity.current
              capacity == [total |-> total, current |-> currentAnimals,
                           available |-> Max(0, total - currentAnimals)]
          IN  IF ~ValidCapacity(capacity)
              THEN /\ resp' = Response("update_ngo_profile", 500, "validation")
                   /\ ngos' = ngos
              ELSE /\ ngos' = [ngos EXCEPT ![n].capacity = PreSaveNgo(capacity)]
                   /\ resp' = Response("update_ngo_profile", 200, "ok")
  /\ UNCHANGED <<users, rescues, tokens, req, mailer>>

\* ---------------------------------------------------------- rescue cases
\* a timeline entry as a handler pushes it: the routes of rescues.js and
\* auth.js write { event, updatedBy }, the alternate admin router writes
\* { status, updatedBy }; a field the handler leaves out is None
TimelineEntry(event, status, by) ==
  [event |-> event, status |-> status, updatedBy |-> by]

\* urgency: one of the four levels the handler accepts
Urgencies == {"low", "medium", "high", "critical"}

\* urgency values a client can send
UrgencyInputs == Urgencies \cup {"urgent"}

AnimalTypes == {"dog", "cat"}

\* animal.type values a client can send; None is a body without the field
AnimalInputs == AnimalTypes \cup {None}

\* priority: urgency === 'critical' ? 10 : urgency === 'high' ? 8 : ...
Priority(urgency) ==
  IF urgency = "critical" THEN 10
  ELSE IF urgency = "high" THEN 8
  ELSE IF urgency = "medium" THEN 5
  ELSE 3

\* POST /api/rescues
CreateRescue(u, animalType, urgency) ==
  /\ Authenticated(u)
  /\ animalType \in AnimalInputs /\ urgency \in UrgencyInputs
  /\ IF animalType = None \/ urgency \notin Urgencies
     THEN /\ resp' = Response("create_rescue", 400, "validation")
          /\ rescues' = rescues
     ELSE LET c == FreshCase
          IN  /\ c # None
              /\ rescues' = [rescues EXCEPT ![c] =
                    [st |-> "live", reporter |-> u, reportedBy |-> None,
                     reporterName |-> None, animalType |-> animalType,
                     urgency |-> urgency, priority |-> Priority(urgency),
                     isPublic |-> TRUE, status |-> "reported",
                     assignedNGO |-> None,
                     timeline |->
                       <<TimelineEntry("Rescue Reported", None, u)>>]]
              /\ resp' = Response("create_rescue", 201, "ok")
  /\ UNCHANGED <<users, ngos, tokens, req, mailer>>

\* DELETE /api/rescues/:id
DeleteRescue(a, c) ==
  /\ Authenticated(a)
  /\ c \in CaseIds
  /\ IF users[a].role # "admin"
     THEN /\ resp' = Response("delete_rescue", 403, "admin_required")
          /\ rescues' = rescues
     ELSE IF ~Live(rescues[c])
     THEN /\ resp' = Response("delete_rescue", 404, "rescue_not_found")
          /\ rescues' = rescues
     ELSE /\ rescues' = [rescues EXCEPT ![c] = NoRescue("deleted")]
          /\ resp' = Response("delete_rescue", 200, "ok")
  /\ UNCHANGED <<users, ngos, tokens, req, mailer>>

\* ------------------------------------------------------------ assignment
InFlight(r) == r.kind # "idle" /\ r.pc # "done"

\* a new request is tracked in the lowest slot that holds no request
FreeSlot(s) ==
  /\ req[s].kind = "idle"
  /\ \A t \in Slots : t < s => req[t].kind # "idle"

\* the spelling-insensitive name of a status value
Canon(status) ==
  CASE status = "REPORTED" -> "reported"
    [] status = "ASSIGNED" -> "assigned"
    [] status = "IN_PROGRESS" -> "in_progress"
    [] status = "RESCUED" -> "rescued"
    [] status = "COMPLETED" -> "completed"
    [] status = "CANCELLED" -> "cancelled"
    [] OTHER -> status

\* a case that is open for assignment in the sense of the design: unassigned
\* and reported or under review (the handlers themselves test the assignee
\* only)
OpenCase(r) ==
  /\ Live(r)
  /\ r.assignedNGO = None
  /\ Canon(r.status) \in {"reported", "under_review"}

Finish(r, code, msg) ==
  [r EXCEPT !.pc = "done", !.result = Response(r.kind, code, msg)]

\* the requests in flight on case c when the request of slot s arrives
Others(s, c) == {t \in Slots \ {s} : InFlight(req[t]) /\ req[t].rescue = c}

\* the request as it arrives at its handler
NewReq(s, kind, u, c, n) ==
  [kind |-> kind, pc |-> "begin", caller |-> u, rescue |-> c, ngo |-> n,
   sawOpen |-> OpenCase(rescues[c]), overlap |-> (Others(s, c) # {}),
   result |-> None]

\* a request enters the handler and runs up to its first await (entered): the
\* requests already in flight on the same case are marked as overlapping
Enter(s, entered) ==
  [t \in Slots |->
     IF t = s THEN entered
     ELSE IF t \in Others(s, entered.rescue) /\ entered.pc # "done"
          THEN [req[t] EXCEPT !.overlap = TRUE]
          ELSE req[t]]

\* PUT /api/rescues/:id/accept, up to the first await that can let another
\* request run: role check, Rescue.findById, the assignee check
AcceptNext(r) ==
  IF users[r.caller].role # "ngo" THEN Finish(r, 403, "only_ngos")
  ELSE IF ~Live(rescues[r.rescue]) THEN Finish(r, 404, "rescue_not_found")
  ELSE IF rescues[r.rescue].assignedNGO # None
       THEN Finish(r, 400, "already_assigned")
  ELSE [r EXCEPT !.pc = "readNgo"]

AcceptBegin(s, u, c) ==
  /\ FreeSlot(s)
  /\ Authenticated(u)
  /\ c \in CaseIds
  /\ req' = Enter(s, AcceptNext(NewReq(s, "accept", u, c, None)))
  /\ UNCHANGED <<users, ngos, rescues, tokens, resp, mailer>>

\* NGO.findOne({ user }) and the verified/active check
AcceptReadNgo(s) ==
  /\ req[s].kind = "accept" /\ req[s].pc = "readNgo"
  /\ LET r == req[s]
         ngoProfile == ProfileOf(r.caller)
     IN  req' = [req EXCEPT ![s] =
           IF ngoProfile = None THEN Finish(r, 404, "profile_not_found")
           ELSE IF ngos[ngoProfile].verification # "verified"
                   \/ ~ngos[ngoProfile].isActive
                THEN Finish(r, 403, "ngo_not_eligible")
           ELSE [r EXCEPT !.pc = "save", !.ngo = ngoProfile]]
  /\ UNCHANGED <<users, ngos, rescues, tokens, resp, mailer>>

\* rescue.assignedNGO = ...; rescue.status = 'ASSIGNED'; await rescue.save():
\* the modified paths are written to the stored document whatever it holds
SaveAssignment(r) ==
  [rescues EXCEPT ![r.rescue].assignedNGO = r.ngo,
                  ![r.rescue].status = "ASSIGNED"]

\* the save, then the mail to the populated reportedBy, if there is one
AcceptSave(s) ==
  /\ req[s].kind = "accept" /\ req[s].pc = "save"
  /\ LET r == req[s]
     IN  IF Live(rescues[r.rescue])
         THEN /\ rescues' = SaveAssignment(r)
              /\ \E outcome \in SendEmail(rescues[r.rescue].reportedBy # None) :
                   req' = [req EXCEPT ![s] =
                     [Finish(r, 200, "ok") EXCEPT
                        !.result = Notified(@, outcome)]]
         ELSE /\ rescues' = rescues
              /\ req' = [req EXCEPT ![s] = Finish(r, 500, "server_error")]
  /\ UNCHANGED <<users, ngos, tokens, resp, mailer>>

\* PUT /api/admin/rescues/:id/assign: ngoId from the body, Rescue.findById
AssignNext(r) ==
  IF ~Live(rescues[r.rescue]) THEN Finish(r, 404, "rescue_not_found")
  ELSE [r EXCEPT !.pc = "readNgo"]

AssignBegin(s, a, c, n) ==
  /\ FreeSlot(s)
  /\ Authenticated(a) /\ users[a].role = "admin"
  /\ c \in CaseIds /\ n \in NgoIds
  /\ req' = Enter(s, AssignNext(NewReq(s, "assign", a, c, n)))
  /\ UNCHANGED <<users, ngos, rescues, tokens, resp, mailer>>

\* NGO.findById(ngoId) and the verified/active check
AssignReadNgo(s) ==
  /\ req[s].kind = "assign" /\ req[s].pc = "readNgo"
  /\ LET r == req[s]
     IN  req' = [req EXCEPT ![s] =
           IF ~Live(ngos[r.ngo]) THEN Finish(r, 404, "ngo_not_found")
           ELSE IF ngos[r.ngo].verification # "verified" \/ ~ngos[r.ngo].isActive
                THEN Finish(r, 400, "ngo_not_eligible")
           ELSE [r EXCEPT !.pc = "save"]]
  /\ UNCHANGED <<users, ngos, rescues, tokens, resp, mailer>>

\* the save, then the mail to the NGO's user
AssignSave(s) ==
  /\ req[s].kind = "assign" /\ req[s].pc = "save"
  /\ LET r == req[s]
     IN  IF Live(rescues[r.rescue])
         THEN /\ rescues' = SaveAssignment(r)
              /\ \E outcome \in SendEmail(TRUE) :
                   req' = [req EXCEPT ![s] =
                     [Finish(r, 200, "ok") EXCEPT
                        !.result = Notified(@, outcome)]]
         ELSE /\ rescues' = rescues
              /\ req' = [req EXCEPT ![s] = Finish(r, 500, "server_error")]
  /\ UNCHANGED <<users, ngos, tokens, resp, mailer>>

\* res.json(...): the response leaves and the request is over
Respond(s) ==
  /\ req[s].pc = "done"
  /\ resp' = req[s].result
  /\ req' = [req EXCEPT ![s] = IdleReq]
  /\ UNCHANGED <<users, ngos, rescues, tokens, mailer>>

\* ------------------------------------------------------ status transitions
\* body('status').isIn([...]) of PUT /api/rescues/:id/status
StatusEnum ==
  {"REPORTED", "ASSIGNED", "IN_PROGRESS", "RESCUED", "COMPLETED", "CANCELLED"}

\* status values a client can send; the validator refuses the lower-case
\* spellings and the value no status enum holds
StatusInputs == StatusEnum \cup {"under_review", "rescued", "ADOPTED"}

\* the id a populated reference compares by: undefined (None) when the field
\* is empty or the referenced document is gone
PopulatedNgo(r) ==
  IF r.assignedNGO # None /\ Live(ngos[r.assignedNGO]) THEN r.assignedNGO ELSE None

\* isOwner || isAdmin || isAssignedNGO of the status and cancel handlers
MayTransition(u, r) ==
  LET isOwner == r.reportedBy # None /\ r.reportedBy = u
      isAdmin == users[u].role = "admin"
      isAssignedNGO == /\ users[u].role = "ngo"
                       /\ PopulatedNgo(r) = ProfileOf(u)
  IN  isOwner \/ isAdmin \/ isAssignedNGO

\* the status route mails the populated reportedBy unless it is the caller
MailsReporter(u, r) == r.reportedBy # None /\ r.reportedBy # u

\* the cancel route mails the reporter when the assigned NGO cancels and the
\* NGO's user when the reporter cancels
CancelNotifications(u, r) ==
  LET isOwner == r.reportedBy # None /\ r.reportedBy = u
      isAssignedNGO == /\ users[u].role = "ngo"
                       /\ PopulatedNgo(r) = ProfileOf(u)
  IN  \/ isAssignedNGO /\ r.reportedBy # None
      \/ isOwner /\ PopulatedNgo(r) # None

\* the status route with body('status').isIn(...) left out
UpdateStatusUnvalidated(u, c, status) ==
  /\ Authenticated(u)
  /\ c \in CaseIds /\ status \in StatusInputs
  /\ IF ~Live(rescues[c])
     THEN /\ resp' = Response("status", 404, "rescue_not_found")
          /\ rescues' = rescues
     ELSE IF ~MayTransition(u, rescues[c])
     THEN /\ resp' = Response("status", 403, "access_denied")
          /\ rescues' = rescues
     ELSE /\ rescues' = [rescues EXCEPT ![c].status = status]
          /\ \E outcome \in SendEmail(MailsReporter(u, rescues[c])) :
               resp' = Notified(StatusResponse("status", 200, "ok",
                                               rescues[c].status, status),
                                outcome)
  /\ UNCHANGED <<users, ngos, tokens, req, mailer>>

\* PUT /api/rescues/:id/status
UpdateStatus(u, c, status) ==
  /\ Authenticated(u)
  /\ c \in CaseIds /\ status \in StatusInputs
  /\ IF status \notin StatusEnum
     THEN /\ resp' = Response("status", 400, "validation")
          /\ rescues' = rescues
     ELSE IF ~Live(rescues[c])
     THEN /\ resp' = Response("status", 404, "rescue_not_found")
          /\ rescues' = rescues
     ELSE IF ~MayTransition(u, rescues[c])
     THEN /\ resp' = Response("status", 403, "access_denied")
          /\ rescues' = rescues
     ELSE /\ rescues' = [rescues EXCEPT ![c].status = status]
          /\ \E outcome \in SendEmail(MailsReporter(u, rescues[c])) :
               resp' = Notified(StatusResponse("status", 200, "ok",
                                               rescues[c].status, status),
                                outcome)
  /\ UNCHANGED <<users, ngos, tokens, req, mailer>>

\* PUT /api/rescues/:id/cancel
CancelRescue(u, c) ==
  /\ Authenticated(u)
  /\ c \in CaseIds
  /\ IF ~Live(rescues[c])
     THEN /\ resp' = Response("cancel", 404, "rescue_not_found")
          /\ rescues' = rescues
     ELSE IF ~MayTransition(u, rescues[c])
     THEN /\ resp' = Response("cancel", 403, "access_denied")
          /\ rescues' = rescues
     ELSE /\ rescues' = [rescues EXCEPT ![c].status = "CANCELLED"]
          /\ \E outcome \in SendEmail(CancelNotifications(u, rescues[c])) :
               resp' = Notified(StatusResponse("cancel", 200, "ok",
                                               rescues[c].status, "CANCELLED"),
                                outcome)
  /\ UNCHANGED <<users, ngos, tokens, req, mailer>>

\* ---------------------------------------------------------------- deletion
\* Rescue.updateMany(filter, update): the documents of coll that match the
\* filter (matched) are replaced by their updated versions
UpdateMany(coll, matched, updated) ==
  [c \in CaseIds |->
     IF Live(coll[c]) /\ c \in matched THEN updated[c] ELSE coll[c]]

\* Rescue.deleteMany(filter)
DeleteMany(coll, matched) ==
  [c \in CaseIds |->
     IF Live(coll[c]) /\ c \in matched THEN NoRescue("deleted") ELSE coll[c]]

\* the value at path assignedNGO.ngo: the handlers store an id in
\* assignedNGO, never an embedded document, so the path has no value
AssignedNgoDotNgo(r) == None

\* { $unset: { assignedNGO }, $set: { status }, $push: { timeline } }
Unassign(r, status, entry) ==
  [r EXCEPT !.assignedNGO = None, !.status = status,
            !.timeline = Append(@, entry)]

\* { $unset: { reporter }, $set: { reporterName, reporterEmail, isOrphaned } }
AnonymizeReporter(r) ==
  [r EXCEPT !.reporter = None,
            !.reporterName = "Anonymous User (Account Deleted)"]

\* DELETE /api/admin/users/:id (admin router with orphan handling)
AdminDeleteUser(a, u, deleteAssociatedData) ==
  /\ Authenticated(a) /\ users[a].role = "admin"
  /\ u \in UserIds /\ deleteAssociatedData \in BOOLEAN
  /\ IF ~Live(users[u])
     THEN /\ resp' = Response("delete_user", 404, "user_not_found")
          /\ UNCHANGED <<users, ngos, rescues>>
     ELSE LET byReporter(r) == r.reporter = u
              afterReports ==
                IF deleteAssociatedData
                THEN DeleteMany(rescues,
                       {c \in CaseIds : byReporter(rescues[c])})
                ELSE UpdateMany(rescues,
                       {c \in CaseIds : byReporter(rescues[c])},
                       [c \in CaseIds |-> AnonymizeReporter(rescues[c])])
              ngoProfile == IF users[u].role = "ngo" THEN ProfileOf(u) ELSE None
              byAssignee(r) == r.assignedNGO = ngoProfile
              release(r) ==
                Unassign(r, "reported",
                         TimelineEntry("NGO Deleted - Unassigned", None, a))
          IN  /\ rescues' = IF ngoProfile # None
                            THEN UpdateMany(afterReports,
                                   {c \in CaseIds : byAssignee(afterReports[c])},
                                   [c \in CaseIds |-> release(afterReports[c])])
                            ELSE afterReports
              /\ ngos' = IF ngoProfile # None
                         THEN [ngos EXCEPT ![ngoProfile] = NoNgo("deleted")]
                         ELSE ngos
              /\ users' = [users EXCEPT ![u] = NoUser("deleted")]
              /\ resp' = Response("delete_user", 200, "ok")
  /\ UNCHANGED <<tokens, req, mailer>>

\* DELETE /api/admin/users/:id (admin router that hands reports to the admin)
AdminDeleteUserAlt(a, u) ==
  /\ Authenticated(a) /\ users[a].role = "admin"
  /\ u \in UserIds
  /\ IF ~Live(users[u])
     THEN /\ resp' = Response("delete_user_alt", 404, "user_not_found")
          /\ UNCHANGED <<users, ngos, rescues>>
     ELSE IF users[u].role = "admin"
     THEN /\ resp' = Response("delete_user_alt", 403, "cannot_delete_admin")
          /\ UNCHANGED <<users, ngos, rescues>>
     ELSE LET ngoProfile == IF users[u].role = "ngo" THEN ProfileOf(u) ELSE None
              byAssignee(r) ==
                /\ AssignedNgoDotNgo(r) = ngoProfile
                /\ r.status \in {"assigned", "in_progress"}
              release(r) ==
                Unassign(r, "under_review",
                         TimelineEntry(None, "under_review", a))
              afterRelease ==
                IF ngoProfile # None
                THEN UpdateMany(rescues,
                       {c \in CaseIds : byAssignee(rescues[c])},
                       [c \in CaseIds |-> release(rescues[c])])
                ELSE rescues
              byReporter(r) == r.reporter = u
              handOver(r) ==
                [r EXCEPT !.reporter = a,
                          !.timeline = Append(@, TimelineEntry(None, r.status, a))]
          IN  /\ rescues' = UpdateMany(afterRelease,
                              {c \in CaseIds : byReporter(afterRelease[c])},
                              [c \in CaseIds |-> handOver(afterRelease[c])])
              /\ ngos' = IF ngoProfile # None
                         THEN [ngos EXCEPT ![ngoProfile] = NoNgo("deleted")]
                         ELSE ngos
              /\ users' = [users EXCEPT ![u] = NoUser("deleted")]
              /\ resp' = Response("delete_user_alt", 200, "ok")
  /\ UNCHANGED <<tokens, req, mailer>>

\* DELETE /api/admin/ngos/:id (admin router with rescue reassignment)
AdminDeleteNgo(a, n, deleteUser) ==
  /\ Authenticated(a) /\ users[a].role = "admin"
  /\ n \in NgoIds /\ deleteUser \in BOOLEAN
  /\ IF ~Live(ngos[n])
     THEN /\ resp' = Response("delete_ngo", 404, "ngo_not_found")
          /\ UNCHANGED <<users, ngos, rescues>>
     ELSE LET owner == ngos[n].user
              byAssignee(r) == r.assignedNGO = n
              release(r) ==
                Unassign(r, "reported",
                  TimelineEntry("NGO Deleted - Requires Reassignment", None, a))
          IN  /\ rescues' = UpdateMany(rescues,
                              {c \in CaseIds : byAssignee(rescues[c])},
                              [c \in CaseIds |-> release(rescues[c])])
              /\ ngos' = [ngos EXCEPT ![n] = NoNgo("deleted")]
              /\ users' = IF deleteUser /\ owner \in UserIds /\ Live(users[owner])
                          THEN [users EXCEPT ![owner] = NoUser("deleted")]
                          ELSE users
              /\ resp' = Response("delete_ngo", 200, "ok")
  /\ UNCHANGED <<tokens, req, mailer>>

\* DELETE /api/admin/ngos/:id (admin router that releases to under_review)
AdminDeleteNgoAlt(a, n, deleteUser) ==
  /\ Authenticated(a) /\ users[a].role = "admin"
  /\ n \in NgoIds /\ deleteUser \in BOOLEAN
  /\ IF ~Live(ngos[n])
     THEN /\ resp' = Response("delete_ngo_alt", 404, "ngo_not_found")
          /\ UNCHANGED <<users, ngos, rescues>>
     ELSE LET owner == ngos[n].user
              byAssignee(r) ==
                /\ AssignedNgoDotNgo(r) = n
                /\ r.status \in {"assigned", "in_progress"}
              release(r) ==
                Unassign(r, "under_review",
                         TimelineEntry(None, "under_review", a))
          IN  /\ rescues' = UpdateMany(rescues,
                              {c \in CaseIds : byAssignee(rescues[c])},
                              [c \in CaseIds |-> release(rescues[c])])
              /\ ngos' = [ngos EXCEPT ![n] = NoNgo("deleted")]
              /\ IF ~deleteUser
                 THEN /\ users' = users
                      /\ resp' = Response("delete_ngo_alt", 200, "ok")
                 ELSE IF owner \in UserIds /\ Live(users[owner])
                 THEN /\ users' = [users EXCEPT ![owner] = NoUser("deleted")]
                      /\ resp' = Response("delete_ngo_alt", 200, "ok")
                 ELSE /\ users' = users
                      /\ resp' = Response("delete_ngo_alt", 500, "server_error")
  /\ UNCHANGED <<tokens, req, mailer>>

\* DELETE /api/user/delete-account
DeleteAccount(u, passwordOk) ==
  /\ Authenticated(u)
  /\ passwordOk \in BOOLEAN
  /\ IF ~passwordOk
     THEN /\ resp' = Response("delete_account", 400, "incorrect_password")
          /\ UNCHANGED <<users, ngos, rescues>>
     ELSE LET ngoProfile == IF users[u].role = "ngo" THEN ProfileOf(u) ELSE None
              byAssignee(r) == r.assignedNGO = ngoProfile
              release(r) == [r EXCEPT !.assignedNGO = None, !.status = "REPORTED"]
              afterRelease ==
                IF ngoProfile # None
                THEN UpdateMany(rescues,
                       {c \in CaseIds : byAssignee(rescues[c])},
                       [c \in CaseIds |-> release(rescues[c])])
                ELSE rescues
              byReportedBy(r) == r.reportedBy = u
              anonymize(r) ==
                [r EXCEPT !.reportedBy = None,
                          !.reporterName = "Anonymous User (Account Deleted)"]
          IN  /\ rescues' = UpdateMany(afterRelease,
                              {c \in CaseIds : byReportedBy(afterRelease[c])},
                              [c \in CaseIds |-> anonymize(afterRelease[c])])
              /\ ngos' = IF ngoProfile # None
                         THEN [ngos EXCEPT ![ngoProfile] = NoNgo("deleted")]
                         ELSE ngos
              /\ users' = [users EXCEPT ![u] = NoUser("deleted")]
              /\ \E outcome \in SendEmail(TRUE) :
                   resp' = Notified(Response("delete_account", 200, "ok"),
                                    outcome)
  /\ UNCHANGED <<tokens, req, mailer>>

\* ------------------------------------------------------------------ reading
\* assignedNGO as models/Rescue.js declares it: an embedded document
\* { ngo, user, assignedAt, ... } instead of the id the route handlers store
EmbeddedNgo(n) == "{ngo: " \o n \o "}"

\* { assignedNGO: { $type: "object", $not: { $type: "objectId" } } }
IsEmbedded(v) == v \in {EmbeddedNgo(n) : n \in NgoIds}

\* STEP 1 of GET /api/rescues: Rescue.updateMany(that filter,
\* { $unset: { assignedNGO: "" }, $set: { status: "reported" } })
CleanUp(coll) ==
  UpdateMany(coll,
    {c \in CaseIds : IsEmbedded(coll[c].assignedNGO)},
    [c \in CaseIds |-> [coll[c] EXCEPT !.assignedNGO = None,
                                      !.status = "reported"]])

\* STEP 3 of GET /api/rescues: the filter by role, for a request without
\* query parameters
RoleFilter(u, r) ==
  IF users[u].role = "user" THEN r.reporter = u
  ELSE IF users[u].role = "ngo"
  THEN \/ ProfileOf(u) # None /\ r.assignedNGO = ProfileOf(u)
       \/ r.assignedNGO = None
  ELSE TRUE

\* GET /api/rescues
ListRescues(u) ==
  /\ Authenticated(u)
  /\ rescues' = CleanUp(rescues)
  /\ resp' = ListResponse("list",
       {c \in CaseIds : Live(rescues'[c]) /\ RoleFilter(u, rescues'[c])})
  /\ UNCHANGED <<users, ngos, tokens, req, mailer>>

\* hasAccess of GET /api/rescues/:id
HasAccess(u, r) ==
  IF users[u].role = "admin" THEN TRUE
  ELSE IF users[u].role = "user" THEN r.reporter = u \/ r.isPublic
  ELSE IF users[u].role = "ngo"
  THEN \/ ProfileOf(u) # None /\ r.assignedNGO = ProfileOf(u)
       \/ r.assignedNGO = None /\ r.isPublic
  ELSE FALSE

\* GET /api/rescues/:id
GetRescue(u, c) ==
  /\ Authenticated(u)
  /\ c \in CaseIds
  /\ resp' = IF ~Live(rescues[c]) THEN Response("get", 404, "rescue_not_found")
             ELSE IF ~HasAccess(u, rescues[c])
             THEN Response("get", 403, "access_denied")
             ELSE ListResponse("get", {c})
  /\ UNCHANGED <<users, ngos, rescues, tokens, req, mailer>>

\* ----------------------------------------------------------- reconciliation
\* a reference stored as a string instead of an ObjectId
StringRef(id) == "'" \o id \o "'"

\* { field: { $type: "string" } }
IsString(v) == v \in {StringRef(id) : id \in NgoIds \cup UserIds}

\* the NGO id a stored assignedNGO is read as once the document is loaded
\* through the schema
NgoIdOf(v) ==
  IF v \in NgoIds THEN v ELSE CHOOSE n \in NgoIds : v = StringRef(n)

\* an orphaned assignment that is logged but not removed
ReleaseOrphanKeepingRef(r) ==
  [r EXCEPT !.status = "reported",
            !.timeline = Append(@, TimelineEntry("Orphaned", None, None))]

\* { $unset: { assignedNGO: "", assignedBy: "" }, $set: { status: "reported",
\* isOrphaned: true, isReassignmentNeeded: true } }
ReleaseOrphan(r) == [r EXCEPT !.assignedNGO = None, !.status = "reported"]

\* cleanupOrphanedData on one rescue: a reporter that no longer exists is
\* unset, the assignment is rewritten as an id and released when its NGO no
\* longer exists
CleanupCase(r) ==
  LET reporterExists == r.reporter \in UserIds /\ Live(users[r.reporter])
      r1 == IF r.reporter # None /\ ~reporterExists
            THEN [r EXCEPT !.reporter = None,
                           !.reporterName =
                              IF @ # None THEN @ ELSE "Deleted User"]
            ELSE r
      r2 == IF r1.assignedNGO # None
            THEN [r1 EXCEPT !.assignedNGO = NgoIdOf(@)]
            ELSE r1
  IN  IF r2.assignedNGO # None /\ ~Live(ngos[r2.assignedNGO])
      THEN ReleaseOrphan(r2)
      ELSE r2

\* the whole pass of cleanupOrphanedData over the rescues
CleanupPass(coll) ==
  [c \in CaseIds |-> IF Live(coll[c]) THEN CleanupCase(coll[c]) ELSE coll[c]]

\* scripts/fixBrokenNGOs.js, cleanupOrphanedData(): run from the command line
CleanupOrphanedData ==
  /\ rescues' = CleanupPass(rescues)
  /\ UNCHANGED <<users, ngos, tokens, req, resp, mailer>>

\* Fix 1 and Fix 2 of POST /repair-database
RepairPass(coll) ==
  LET fix1 == UpdateMany(coll,
                {c \in CaseIds : IsString(coll[c].assignedNGO)},
                [c \in CaseIds |-> [coll[c] EXCEPT !.assignedNGO = None,
                                                  !.status = "REPORTED"]])
  IN  UpdateMany(fix1,
        {c \in CaseIds : IsString(fix1[c].reportedBy)},
        [c \in CaseIds |-> [fix1[c] EXCEPT
                              !.reportedBy = None,
                              !.reporterName = "System User (Repaired)"]])

\* Fix 3 of POST /repair-database: NGO.updateMany({ user: { $type: "string" } },
\* { $unset: { user: "" } })
RepairNgos(coll) ==
  [n \in NgoIds |->
     IF Live(coll[n]) /\ IsString(coll[n].user)
     THEN [coll[n] EXCEPT !.user = None]
     ELSE coll[n]]

\* POST /api/admin/repair-database
RepairDatabase(a) ==
  /\ Authenticated(a) /\ users[a].role = "admin"
  /\ rescues' = RepairPass(rescues)
  /\ ngos' = RepairNgos(ngos)
  /\ resp' = Response("repair", 200, "ok")
  /\ UNCHANGED <<users, tokens, req, mailer>>

\* ----------------------------------------------------------- specification
Next ==
  \/ \E u \in UserIds, role \in {"user", "ngo"}, capacity \in 1..MaxCap,
        specialties \in SpecialtySets \cup {{}} :
       Register(u, role, capacity, specialties)
  \/ \E u \in UserIds : Login(u)
  \/ \E u \in UserIds : LoginStrict(u)
  \/ \E a \in UserIds, n \in NgoIds : ApproveNgo(a, n)
  \/ \E a \in UserIds, n \in NgoIds : RejectNgo(a, n)
  \/ \E a \in UserIds, n \in NgoIds : VerifyNgo(a, n)
  \/ \E a \in UserIds, n \in NgoIds : VerifyNgoAdmin(a, n)
  \/ \E a \in UserIds, u \in UserIds, active \in BOOLEAN :
       SetUserActive(a, u, active)
  \/ \E u \in UserIds, body \in CapacityBodies : CreateMyProfile(u, body)
  \/ \E u \in UserIds, body \in CapacityBodies : UpdateMyProfile(u, body)
  \/ \E u \in UserIds, total \in 1..MaxCap : UpdateNgoProfile(u, total)
  \/ \E u \in UserIds, animalType \in AnimalInputs, urgency \in UrgencyInputs :
       CreateRescue(u, animalType, urgency)
  \/ \E a \in UserIds, c \in CaseIds : DeleteRescue(a, c)
  \/ \E s \in Slots, u \in UserIds, c \in CaseIds : AcceptBegin(s, u, c)
  \/ \E s \in Slots : AcceptReadNgo(s)
  \/ \E s \in Slots : AcceptSave(s)
  \/ \E s \in Slots, a \in UserIds, c \in CaseIds, n \in NgoIds :
       AssignBegin(s, a, c, n)
  \/ \E s \in Slots : AssignReadNgo(s)
  \/ \E s \in Slots : AssignSave(s)
  \/ \E s \in Slots : Respond(s)
  \/ \E u \in UserIds, c \in CaseIds, status \in StatusInputs :
       UpdateStatus(u, c, status)
  \/ \E u \in UserIds, c \in CaseIds : CancelRescue(u, c)
  \/ \E a \in UserIds, u \in UserIds, d \in BOOLEAN : AdminDeleteUser(a, u, d)
  \/ \E a \in UserIds, u \in UserIds : AdminDeleteUserAlt(a, u)
  \/ \E a \in UserIds, n \in NgoIds, d \in BOOLEAN : AdminDeleteNgo(a, n, d)
  \/ \E a \in UserIds, n \in NgoIds, d \in BOOLEAN : AdminDeleteNgoAlt(a, n, d)
  \/ \E u \in UserIds, ok \in BOOLEAN : DeleteAccount(u, ok)
  \/ \E u \in UserIds : ListRescues(u)
  \/ \E u \in UserIds, c \in CaseIds : GetRescue(u, c)
  \/ CleanupOrphanedData
  \/ \E a \in UserIds : RepairDatabase(a)
  \/ \E template \in TemplateInputs : SendEmailCall(template)
  \/ \E outcome \in {"ok", "template"} \cup TransportErrors : MailAttempt(outcome)
  \/ MailRetry

Spec == Init /\ [][Next]_vars

\* ------------------------------------------- NGO profile and capacity only
TheNgoUser == "g" \o ToString(MaxNgoUsers)

NextProfile ==
  \/ \E capacity \in 1..MaxCap : Register(TheNgoUser, "ngo", capacity, {"all"})
  \/ Login(TheNgoUser)
  \/ \E n \in NgoIds : ApproveNgo(AdminId, n)
  \/ \E n \in NgoIds : RejectNgo(AdminId, n)
  \/ \E body \in CapacityBodies : CreateMyProfile(TheNgoUser, body)
  \/ \E body \in CapacityBodies : UpdateMyProfile(TheNgoUser, body)
  \/ \E total \in 1..MaxCap : UpdateNgoProfile(TheNgoUser, total)
  \/ \E n \in NgoIds : AdminDeleteNgo(AdminId, n, FALSE)

SpecProfile == Init /\ [][NextProfile]_vars

\* C1: every NGO profile has capacity.available = capacity.total -
\* capacity.current, with current and available not negative, in every state
\* that registration, profile creation and update, approval and rejection
\* can reach.
CapacityConsistent ==
  \A n \in NgoIds :
    Live(ngos[n]) =>
      /\ ngos[n].capacity.available
           = ngos[n].capacity.total - ngos[n].capacity.current
      /\ ngos[n].capacity.current >= 0
      /\ ngos[n].capacity.available >= 0

\* ----------------------------------------------------- assignment workflow
\* a profile body that declares the NGO full
FullBody == [total |-> MaxCap, current |-> MaxCap, available |-> 0]

LiveNgos == {n \in NgoIds : Live(ngos[n])}

LiveCases == {c \in CaseIds : Live(rescues[c])}

\* the reporters that report the only case of a run
FirstReporters ==
  IF \A c \in CaseIds : rescues[c].st = "none" THEN ReporterIds ELSE {}

NextAssign ==
  \/ \E u \in ReporterIds : Register(u, "user", MaxCap, {})
  \/ \E u \in NgoUserIds : Register(u, "ngo", MaxCap, {"all"})
  \/ \E u \in NgoUserIds : Login(u)
  \/ \E n \in LiveNgos : ApproveNgo(AdminId, n)
  \/ \E u \in NgoUserIds : UpdateMyProfile(u, FullBody)
  \/ \E u \in FirstReporters : CreateRescue(u, "dog", "medium")
  \/ \E s \in Slots, u \in NgoUserIds, c \in LiveCases : AcceptBegin(s, u, c)
  \/ \E s \in Slots : AcceptReadNgo(s)
  \/ \E s \in Slots : AcceptSave(s)
  \/ \E s \in Slots, c \in LiveCases, n \in LiveNgos :
       AssignBegin(s, AdminId, c, n)
  \/ \E s \in Slots : AssignReadNgo(s)
  \/ \E s \in Slots : AssignSave(s)
  \/ \E s \in Slots : Respond(s)

SpecAssign == Init /\ [][NextAssign]_vars

\* the requests that went through an assignment handler to its end
Assignments == {s \in Slots : req[s].kind \in {"accept", "assign"} /\ req[s].pc = "done"}

\* the answers of the race on an open case: the assignment, or the refusal
\* the loser is to observe
RaceAnswers == {"ok", "already_assigned", "case_not_available"}

Assigned(s) ==
  /\ req[s].kind \in {"accept", "assign"}
  /\ req[s].pc = "save"
  /\ req'[s].pc = "done"
  /\ req'[s].result.code = 200

Transitioners == {AdminId, TheNgoUser} \cup ReporterIds

NextLifecycle ==
  \/ \E u \in ReporterIds : Register(u, "user", MaxCap, {})
  \/ Register(TheNgoUser, "ngo", MaxCap, {"all"})
  \/ Login(TheNgoUser)
  \/ \E n \in LiveNgos : ApproveNgo(AdminId, n)
  \/ \E u \in FirstReporters : CreateRescue(u, "dog", "medium")
  \/ \E c \in LiveCases : AcceptBegin(1, TheNgoUser, c)
  \/ AcceptReadNgo(1)
  \/ AcceptSave(1)
  \/ Respond(1)
  \/ \E u \in Transitioners, c \in LiveCases, status \in StatusInputs :
       UpdateStatus(u, c, status)
  \/ \E u \in Transitioners, c \in LiveCases : CancelRescue(u, c)

SpecLifecycle == Init /\ [][NextLifecycle]_vars

SuccessfulStates == {"rescued", "completed"}

TerminalStates == {"completed", "cancelled"}

Deletable == ReporterIds \cup {TheNgoUser}

NextDelete ==
  \/ \E u \in ReporterIds : Register(u, "user", MaxCap, {})
  \/ Register(TheNgoUser, "ngo", MaxCap, {"all"})
  \/ \E u \in Deletable : Login(u)
  \/ \E n \in LiveNgos : ApproveNgo(AdminId, n)
  \/ \E u \in Deletable : CreateRescue(u, "dog", "medium")
  \/ \E c \in LiveCases, n \in LiveNgos : AssignBegin(1, AdminId, c, n)
  \/ AssignReadNgo(1)
  \/ AssignSave(1)
  \/ Respond(1)
  \/ \E u \in Deletable, d \in BOOLEAN : AdminDeleteUser(AdminId, u, d)
  \/ \E u \in Deletable : AdminDeleteUserAlt(AdminId, u)
  \/ \E n \in LiveNgos, d \in BOOLEAN : AdminDeleteNgo(AdminId, n, d)
  \/ \E n \in LiveNgos, d \in BOOLEAN : AdminDeleteNgoAlt(AdminId, n, d)
  \/ \E u \in Deletable : DeleteAccount(u, TRUE)

SpecDelete == Init /\ [][NextDelete]_vars

\* the NGO profiles and the users a step deletes
DeletedNgos == {n \in NgoIds : Live(ngos[n]) /\ ~Live(ngos'[n])}

DeletedUsers == {u \in UserIds : Live(users[u]) /\ ~Live(users'[u])}

ActiveStates == {"assigned", "in_progress"}

NoDanglingAfterDeletion ==
  [][\A c \in CaseIds :
       Live(rescues'[c]) =>
         /\ rescues'[c].reporter \notin DeletedUsers
         /\ rescues'[c].assignedNGO \notin DeletedNgos]_vars

LiveCaseCount(coll) == Cardinality({c \in CaseIds : Live(coll[c])})

\* C9: when a reporter deletes the own account, every case that user
\* reported keeps status, assignee and timeline, its reporter no longer
\* names the user, and the number of cases is unchanged.
ReporterSelfDeleteAnonymizes ==
  [][\A u \in ReporterIds :
       ( /\ u \in DeletedUsers
         /\ resp'.op = "delete_account" )
       => /\ LiveCaseCount(rescues') = LiveCaseCount(rescues)
          /\ \A c \in CaseIds :
               (Live(rescues[c]) /\ rescues[c].reporter = u) =>
                 /\ Live(rescues'[c])
                 /\ rescues'[c].reporter # u
                 /\ rescues'[c].status = rescues[c].status
                 /\ rescues'[c].assignedNGO = rescues[c].assignedNGO
                 /\ rescues'[c].timeline = rescues[c].timeline]_vars

\* ------------------------------------------------- assignment preconditions
\* the step in which the assignment request of slot s reaches its answer
Completes(s) ==
  /\ req[s].pc # "done"
  /\ req'[s].pc = "done"
  /\ req'[s].kind \in {"accept", "assign"}

NextEligibility ==
  \/ \E u \in ReporterIds : Register(u, "user", MaxCap, {})
  \/ Register(TheNgoUser, "ngo", MaxCap, {"all"})
  \/ Login(TheNgoUser)
  \/ \E n \in LiveNgos : ApproveNgo(AdminId, n)
  \/ \E n \in LiveNgos : RejectNgo(AdminId, n)
  \/ \E u \in FirstReporters : CreateRescue(u, "dog", "medium")
  \/ \E c \in LiveCases : AcceptBegin(1, TheNgoUser, c)
  \/ AcceptReadNgo(1)
  \/ AcceptSave(1)
  \/ \E c \in LiveCases, n \in LiveNgos : AssignBegin(1, AdminId, c, n)
  \/ AssignReadNgo(1)
  \/ AssignSave(1)
  \/ Respond(1)

SpecEligibility == Init /\ [][NextEligibility]_vars

\* the NGO profile an assignment request is made by (accept) or for (assign)
RequestNgo(r) == IF r.kind = "accept" THEN ProfileOf(r.caller) ELSE r.ngo

Eligible(n) == ngos[n].verification = "verified" /\ ngos[n].isActive

\* C13: an assignment request that reads an NGO profile which is not both
\* verified and active is answered at once with NGONotEligible, a 400, and
\* the case is left as it was.
IneligibleNgoRefused ==
  [][\A s \in Slots :
       ( /\ req[s].pc = "readNgo"
         /\ req'[s] # req[s]
         /\ RequestNgo(req[s]) # None
         /\ Live(ngos[RequestNgo(req[s])])
         /\ ~Eligible(RequestNgo(req[s])) )
       => /\ req'[s].pc = "done"
          /\ req'[s].result.code = 400
          /\ req'[s].result.msg = "ngo_not_eligible"
          /\ rescues' = rescues]_vars

\* ------------------------------------------------ case intake and specialty
NextIntake ==
  \/ \E u \in ReporterIds : Register(u, "user", MaxCap, {})
  \/ \E specialties \in SpecialtySets :
       Register(TheNgoUser, "ngo", MaxCap, specialties)
  \/ Login(TheNgoUser)
  \/ \E n \in LiveNgos : ApproveNgo(AdminId, n)
  \/ \E u \in FirstReporters, animalType \in AnimalInputs,
        urgency \in UrgencyInputs : CreateRescue(u, animalType, urgency)
  \/ \E c \in LiveCases : AcceptBegin(1, TheNgoUser, c)
  \/ AcceptReadNgo(1)
  \/ AcceptSave(1)
  \/ \E c \in LiveCases, n \in LiveNgos : AssignBegin(1, AdminId, c, n)
  \/ AssignReadNgo(1)
  \/ AssignSave(1)
  \/ Respond(1)

SpecIntake == Init /\ [][NextIntake]_vars

\* the NGO takes cases of this animal type
Covers(n, animalType) ==
  animalType \in ngos[n].specialties \/ "all" \in ngos[n].specialties

CreationEffect ==
  [][\A c \in CaseIds :
       (rescues[c].st = "none" /\ Live(rescues'[c])) =>
         /\ rescues'[c].status = "reported"
         /\ rescues'[c].isPublic
         /\ Len(rescues'[c].timeline) = 1
         /\ rescues'[c].timeline[1].updatedBy = rescues'[c].reporter
         /\ rescues'[c].timeline[1].status = "reported"
         /\ rescues'[c].priority = Priority(rescues'[c].urgency)
         /\ Priority("critical") > Priority("high")
         /\ Priority("high") > Priority("medium")
         /\ Priority("medium") > Priority("low")]_vars

\* -------------------------------------------- transitions: who and what else
NextTransition ==
  \/ \E u \in ReporterIds : Register(u, "user", MaxCap, {})
  \/ Register(TheNgoUser, "ngo", MaxCap, {"all"})
  \/ Login(TheNgoUser)
  \/ \E n \in LiveNgos : ApproveNgo(AdminId, n)
  \/ UpdateMyProfile(TheNgoUser, FullBody)
  \/ \E n \in LiveNgos : AdminDeleteNgo(AdminId, n, FALSE)
  \/ \E u \in FirstReporters : CreateRescue(u, "dog", "medium")
  \/ \E c \in LiveCases : AcceptBegin(1, TheNgoUser, c)
  \/ AcceptReadNgo(1)
  \/ AcceptSave(1)
  \/ Respond(1)
  \/ \E u \in Transitioners, c \in LiveCases, status \in StatusInputs :
       UpdateStatus(u, c, status)
  \/ \E u \in Transitioners, c \in LiveCases : CancelRescue(u, c)

SpecTransition == Init /\ [][NextTransition]_vars

ClosingStates == {"rescued", "completed", "cancelled"}

Entitled(u, c) ==
  \/ users[u].role = "admin"
  \/ rescues[c].reporter = u
  \/ ProfileOf(u) # None /\ rescues[c].assignedNGO = ProfileOf(u)

\* the step is a request of u on case c to the status route (with a status
\* the validator accepts) or to the cancel route
TransitionRequest(u, c) ==
  \/ \E status \in StatusEnum : UpdateStatus(u, c, status)
  \/ CancelRescue(u, c)

\* C16: a status or cancel request on an existing case by an admin, by the
\* case's reporter or by the user of the assigned NGO is answered with
\* success.
EntitledCallersPermitted ==
  [][\A u \in UserIds, c \in CaseIds :
       ( /\ Authenticated(u)
         /\ Live(rescues[c])
         /\ Entitled(u, c)
         /\ TransitionRequest(u, c) )
       => resp'.code = 200]_vars

NextNotify ==
  \/ \E u \in ReporterIds : Register(u, "user", MaxCap, {})
  \/ Register(TheNgoUser, "ngo", MaxCap, {"all"})
  \/ Login(TheNgoUser)
  \/ \E n \in LiveNgos : ApproveNgo(AdminId, n)
  \/ \E n \in LiveNgos : RejectNgo(AdminId, n)
  \/ \E u \in FirstReporters : CreateRescue(u, "dog", "medium")
  \/ \E c \in LiveCases : AcceptBegin(1, TheNgoUser, c)
  \/ AcceptReadNgo(1)
  \/ AcceptSave(1)
  \/ \E c \in LiveCases, n \in LiveNgos : AssignBegin(1, AdminId, c, n)
  \/ AssignReadNgo(1)
  \/ AssignSave(1)
  \/ Respond(1)
  \/ \E u \in Transitioners, c \in LiveCases :
       \E status \in {"IN_PROGRESS", "COMPLETED", "rescued"} :
         UpdateStatus(u, c, status)
  \/ \E u \in Transitioners, c \in LiveCases : CancelRescue(u, c)
  \/ \E u \in Deletable : DeleteAccount(u, TRUE)

SpecNotify == Init /\ [][NextNotify]_vars

\* C20: when the notification of an accept, an admin assignment, a status
\* update, a cancellation, an NGO approval or rejection, or an account
\* deletion fails, the handler still answers 200 and what it wrote is in the
\* store.
NotificationFailureSwallowed ==
  [][ /\ resp'.mail = "failed" =>
           /\ resp'.code = 200
           /\ \A n \in NgoIds :
                ApproveNgo(AdminId, n) =>
                  /\ ngos'[n].verification = "verified" /\ ngos'[n].isActive
                  /\ users'[ngos[n].user].isApproved
           /\ \A n \in NgoIds :
                RejectNgo(AdminId, n) =>
                  /\ ngos'[n].verification = "rejected" /\ ~ngos'[n].isActive
                  /\ ~users'[ngos[n].user].isApproved
           /\ \A u \in UserIds, c \in CaseIds, status \in StatusInputs :
                UpdateStatus(u, c, status) => rescues'[c].status = status
           /\ \A u \in UserIds, c \in CaseIds :
                CancelRescue(u, c) => rescues'[c].status = "CANCELLED"
           /\ \A u \in UserIds :
                DeleteAccount(u, TRUE) => ~Live(users'[u])
      /\ \A s \in Slots :
           /\ req[s].pc = "save" /\ req'[s].pc = "done"
           /\ req'[s].result.mail = "failed"
           => /\ req'[s].result.code = 200
              /\ rescues'[req[s].rescue].assignedNGO = req[s].ngo
              /\ rescues'[req[s].rescue].status = "ASSIGNED" ]_vars

\* an approval was answered although its mail to the NGO's user failed
NotificationFailureSwallowedWitness ==
  /\ resp.op = "approve" /\ resp.mail = "failed" /\ resp.code = 200
  /\ \E n \in NgoIds : Live(ngos[n]) /\ ngos[n].verification = "verified"

\* ------------------------------------------------------------------ listing
\* a case whose assignment was stored in the shape models/Rescue.js declares
StoredCase(n) ==
  [NoRescue("live") EXCEPT !.animalType = "dog", !.urgency = "medium",
                           !.priority = Priority("medium"), !.isPublic = TRUE,
                           !.status = "assigned",
                           !.assignedNGO = EmbeddedNgo(n)]

\* the server starts on a store that may already hold such cases
InitStored ==
  /\ users = [u \in UserIds |-> IF u = AdminId THEN AdminUser ELSE NoUser("none")]
  /\ ngos = [n \in NgoIds |-> NoNgo("none")]
  /\ rescues \in [CaseIds -> {NoRescue("none"), StoredCase(NgoId(1))}]
  /\ tokens = {AdminId}
  /\ req = [s \in Slots |-> IdleReq]
  /\ resp = Response("init", 0, None)
  /\ mailer = IdleMailer

\* users that read rescues
Readers == {AdminId, TheNgoUser} \cup ReporterIds

NextStored ==
  \/ \E u \in ReporterIds : Register(u, "user", MaxCap, {})
  \/ \E u \in {AdminId} \cup ReporterIds, animalType \in AnimalTypes :
       CreateRescue(u, animalType, "medium")
  \/ \E u \in Readers : ListRescues(u)
  \/ \E u \in Readers, c \in CaseIds : GetRescue(u, c)

SpecStored == InitStored /\ [][NextStored]_vars

NextListing ==
  \/ \E u \in ReporterIds : Register(u, "user", MaxCap, {})
  \/ \E specialties \in SpecialtySets :
       Register(TheNgoUser, "ngo", MaxCap, specialties)
  \/ Login(TheNgoUser)
  \/ \E n \in LiveNgos : ApproveNgo(AdminId, n)
  \/ \E u \in {AdminId} \cup ReporterIds : CreateRescue(u, "dog", "medium")
  \/ \E c \in LiveCases : AcceptBegin(1, TheNgoUser, c)
  \/ AcceptReadNgo(1)
  \/ AcceptSave(1)
  \/ Respond(1)
  \/ \E c \in LiveCases : CancelRescue(AdminId, c)
  \/ \E u \in Readers : ListRescues(u)
  \/ \E u \in Readers, c \in CaseIds : GetRescue(u, c)

SpecListing == Init /\ [][NextListing]_vars

\* unassigned and in an open status
OpenStates == {"reported", "under_review"}

\* what an NGO may see: a case of a type it takes that is assigned to it, or
\* unassigned and open
NgoVisible(n, r) ==
  /\ Covers(n, r.animalType)
  /\ \/ r.assignedNGO = n
     \/ r.assignedNGO = None /\ Canon(r.status) \in OpenStates

\* what a reporter may see: the own cases, and the public cases of others
\* that are not cancelled
ReporterVisible(u, r) ==
  r.reporter = u \/ (r.isPublic /\ Canon(r.status) # "cancelled")

\* C22: the answer to GET /api/rescues for a user with role ngo and an NGO
\* profile holds only cases of an animal type in the NGO's specialties (any
\* type with "all") that are assigned to that NGO, or unassigned with status
\* reported or under_review.
NgoListingScoped ==
  [][\A u \in UserIds :
       ListRescues(u) /\ users[u].role = "ngo" /\ ProfileOf(u) # None =>
         \A c \in resp'.list : NgoVisible(ProfileOf(u), rescues'[c])]_vars

\* C23: the answer to GET /api/rescues for a user with role user holds
\* exactly the caller's own cases and the public, not cancelled cases of
\* other reporters.
ReporterListingComplete ==
  [][\A u \in UserIds :
       ListRescues(u) /\ users[u].role = "user" =>
         resp'.list = {c \in CaseIds : /\ Live(rescues'[c])
                                      /\ ReporterVisible(u, rescues'[c])}]_vars

\* the visibility the listing rules give a caller
Visible(u, r) ==
  IF users[u].role = "admin" THEN TRUE
  ELSE IF users[u].role = "user" THEN ReporterVisible(u, r)
  ELSE ProfileOf(u) # None /\ NgoVisible(ProfileOf(u), r)

NextDecision ==
  \/ \E u \in NgoUserIds : Register(u, "ngo", MaxCap, {"all"})
  \/ \E n \in LiveNgos : ApproveNgo(AdminId, n)
  \/ \E n \in LiveNgos : RejectNgo(AdminId, n)
  \/ \E u \in NgoUserIds : Login(u)
  \/ \E u \in NgoUserIds : LoginStrict(u)

SpecDecision == Init /\ [][NextDecision]_vars

\* the approval of user u as the user document holds it
Approval(coll, u) == <<coll[u].ngoApprovalStatus, coll[u].isApproved>>

\* C25: the approval status of a registered NGO user (ngoApprovalStatus,
\* isApproved) changes only in a step that is an admin's approval or
\* rejection; a login leaves it as it was.
ApprovalChangedByAdminOnly ==
  [][\A u \in NgoUserIds :
       Live(users[u]) /\ Approval(users', u) # Approval(users, u) =>
         \E n \in NgoIds : ApproveNgo(AdminId, n) \/ RejectNgo(AdminId, n)]_vars

\* C29: a login of an NGO user is answered with a token only if the admin's
\* most recent decision on that user, kept in the verification of the user's
\* NGO profile, was an approval.
TokenOnlyAfterApproval ==
  [][\A u \in NgoUserIds :
       (Login(u) \/ LoginStrict(u)) /\ resp'.code = 200 =>
         /\ ProfileOf(u) # None
         /\ ngos[ProfileOf(u)].verification = "verified"]_vars

\* ----------------------------------------------------------- reconciliation
\* the rescues a store in need of repair can hold: the reporter present or
\* gone, the assignment empty, an id or a string, to an NGO present or gone
StoredForRepair ==
  {NoRescue("none")} \cup
  {[NoRescue("live") EXCEPT !.reporter = reporter, !.reportedBy = reportedBy,
                            !.animalType = "dog", !.urgency = "medium",
                            !.priority = Priority("medium"),
                            !.isPublic = TRUE,
                            !.status = IF assignedNGO = None THEN "reported"
                                       ELSE "ASSIGNED",
                            !.assignedNGO = assignedNGO] :
     reporter \in ReporterIds,
     reportedBy \in {None} \cup {StringRef(u) : u \in ReporterIds},
     assignedNGO \in {None, NgoId(1), StringRef(NgoId(1))}}

\* the server and the script start on such a store; the reporter's account
\* and the NGO of the references exist or were deleted
InitForRepair ==
  /\ users \in [UserIds -> {AdminUser, NoUser("none"), NoUser("deleted")}]
  /\ users[AdminId] = AdminUser
  /\ \A u \in NgoUserIds : users[u] = NoUser("none")
  /\ \A u \in ReporterIds : users[u] # AdminUser
  /\ ngos \in [NgoIds -> {NoNgo("none"), NoNgo("deleted"),
                          [NoNgo("live") EXCEPT !.user = StringRef(TheNgoUser)]}]
  /\ \A n \in NgoIds \ {NgoId(1)} : ngos[n] = NoNgo("none")
  /\ rescues \in [CaseIds -> StoredForRepair]
  /\ tokens = {AdminId}
  /\ req = [s \in Slots |-> IdleReq]
  /\ resp = Response("init", 0, None)
  /\ mailer = IdleMailer

NextReconcile ==
  \/ CleanupOrphanedData
  \/ RepairDatabase(AdminId)
  \/ \E n \in LiveNgos : AdminDeleteNgo(AdminId, n, FALSE)

SpecReconcile == InitForRepair /\ [][NextReconcile]_vars

NextMail ==
  \/ \E template \in TemplateInputs : SendEmailCall(template)
  \/ \E outcome \in {"ok", "template"} \cup TransportErrors : MailAttempt(outcome)
  \/ MailRetry

SpecMail ==
  /\ Init
  /\ [][NextMail]_vars
  /\ WF_vars(\E outcome \in {"ok", "template"} \cup TransportErrors :
               MailAttempt(outcome))
  /\ WF_vars(MailRetry)

\* the call is over: sendEmail returned or threw
MailOver == mailer.pc \in {"returned", "thrown"}

\* C28: a call of sendEmail makes at most 3 tries and ends; it returns the
\* success result at the first try that succeeds and tries no more; when all
\* 3 tries fail it throws the error of the third.
SendEmailBounded ==
  /\ [](/\ mailer.attempts <= 3
        /\ mailer.pc = "returned" =>
             /\ mailer.result = "success"
             /\ Len(mailer.errors) = mailer.attempts - 1
        /\ mailer.pc = "thrown" =>
             /\ mailer.attempts = 3 /\ Len(mailer.errors) = 3
             /\ mailer.result = mailer.errors[3])
  /\ [][MailOver => mailer' = mailer]_vars
  /\ (mailer.pc = "trying" ~> MailOver)

\* sendEmail threw after three failed tries with three different errors
SendEmailBoundedWitness ==
  /\ mailer.pc = "thrown"
  /\ mailer.errors = <<"connect", "verify", "send">>

\* ----------------------------------------------------------------- standing
\* the admin's decisions on NGOs and on their users' accounts
NextStanding ==
  \/ \E u \in NgoUserIds : Register(u, "ngo", MaxCap, {"all"})
  \/ \E n \in LiveNgos : ApproveNgo(AdminId, n)
  \/ \E n \in LiveNgos : RejectNgo(AdminId, n)
  \/ \E n \in LiveNgos : VerifyNgo(AdminId, n)
  \/ \E n \in LiveNgos : VerifyNgoAdmin(AdminId, n)
  \/ \E u \in NgoUserIds, active \in BOOLEAN : SetUserActive(AdminId, u, active)

SpecStanding == Init /\ [][NextStanding]_vars

\* the user owning NGO n is approved and active
OwnerInGoodStanding(n) ==
  LET u == ngos[n].user
  IN  /\ u \in UserIds /\ Live(users[u])
      /\ users[u].ngoApprovalStatus = "approved" /\ users[u].isApproved
      /\ users[u].isActive

\* C30: in every state the admin's verify, approve, reject, activate and
\* deactivate actions reach, an NGO profile that is eligible for assignment
\* (verified and active) belongs to a user who is approved and active.
EligibleOnlyInGoodStanding ==
  \A n \in NgoIds :
    Live(ngos[n]) /\ Eligible(n) => OwnerInGoodStanding(n)

====
